---------------------------- MODULE Spec2Model ----------------------------
(***************************************************************************)
(* Model of hpolen/model-card-extract: the identifier extraction, the      *)
(* policy store, the policy editor, the risk evaluator and the generate    *)
(* flow of streamlit_app.py, and the identifier extraction of              *)
(* hf_modelcard_to_md.py.                                                  *)
(*                                                                         *)
(* Python strings are sequences of one-character strings, so that strip,   *)
(* lower, replace, split, substring search and the regular expression are  *)
(* computed character by character.  Python dicts are functions, so that   *)
(* a missing key is a key outside the DOMAIN.  None is the value PyNone.   *)
(***************************************************************************)
EXTENDS Integers, Sequences, FiniteSets, TLC

VARIABLES
    \* --- identifier extraction (extract_repo_id of both files)
    ex_module,      \* which file's extract_repo_id is applied: "app" or "cli"
    ex_trace,       \* <<input, f(input), f(f(input)), ...>>
    \* --- risk evaluator called on its own (evaluate_dimension, score_model)
    sc_meta,        \* the facts handed to the evaluator
    sc_policy,      \* the policy handed to the evaluator
    sc_call,        \* the last call made: "none", a dimension name, or "score_model"
    sc_result,      \* what that call returned
    \* --- one script run of streamlit_app.py
    pc,             \* position of the script
    file,           \* risk_policy.json: [kind, content]
    DEFAULT_POLICY, \* the module-level dict of lines 68-97
    policy,         \* the module-level name `policy`: "unbound", "DEFAULT_POLICY" (an alias) or "loaded"
    loaded,         \* the dict json.load built, when policy = "loaded"
    flow_policy,    \* the policy the generate flow scored with (line 387): a value
    fetch,          \* outcome of build_markdown_and_meta in this run
    score,          \* what score_model returned in this run
    outputs,        \* the st.* output elements of the generate flow emitted so far, in order
    messages,       \* the st.error / st.warning / st.info / uncaught-exception messages, in order
    cache           \* st.cache_data of build_markdown_and_meta: the repo ids whose result is cached

exVars  == <<ex_module, ex_trace>>
scVars  == <<sc_meta, sc_policy, sc_call, sc_result>>
appVars == <<pc, file, DEFAULT_POLICY, policy, loaded, flow_policy, fetch, score, outputs, messages, cache>>
vars    == <<ex_module, ex_trace, sc_meta, sc_policy, sc_call, sc_result,
             pc, file, DEFAULT_POLICY, policy, loaded, flow_policy, fetch, score, outputs, messages, cache>>

\* None where a string is expected (re.search found no match): no string equals it
NoMatch == <<"None">>

\* Python values held in the meta dict, tagged with their type
PyNone     == [t |-> "NoneType"]
PyStr(s)   == [t |-> "str", v |-> s]
PyNum(n)   == [t |-> "num", v |-> n]
PyList(xs) == [t |-> "list", v |-> xs]

\* bool(v)
truthy(v) ==
    CASE v.t = "NoneType" -> FALSE
      [] v.t = "str"      -> v.v # <<>>
      [] v.t = "num"      -> v.v # 0
      [] v.t = "list"     -> v.v # <<>>

\* dict.get(k, default)
get(d, k, default) == IF k \in DOMAIN d THEN d[k] ELSE default

\* F applied to the value of x, x being evaluated once (Python binds a local to the
\* value of its right-hand side)
Bind(x, F(_)) == CHOOSE y \in {F(v) : v \in {x}} : TRUE

-----------------------------------------------------------------------------
(* Python str methods, on sequences of characters.                         *)

UpperChars == <<"A","B","C","D","E","F","G","H","I","J","K","L","M",
                "N","O","P","Q","R","S","T","U","V","W","X","Y","Z">>
LowerChars == <<"a","b","c","d","e","f","g","h","i","j","k","l","m",
                "n","o","p","q","r","s","t","u","v","w","x","y","z">>

\* the characters str.strip() removes
Whitespace == {" ", "\t", "\n", "\r"}

lower_char(c) ==
    IF \E i \in DOMAIN UpperChars : UpperChars[i] = c
    THEN LowerChars[CHOOSE i \in DOMAIN UpperChars : UpperChars[i] = c]
    ELSE c

\* str.lower()
lower(s) == [i \in 1..Len(s) |-> lower_char(s[i])]

\* str.strip()
strip(s) ==
    LET keep == {i \in 1..Len(s) : s[i] \notin Whitespace}
    IN  IF keep = {} THEN <<>>
        ELSE LET first == CHOOSE i \in keep : \A j \in keep : i <= j
                 last  == CHOOSE i \in keep : \A j \in keep : j <= i
             IN  SubSeq(s, first, last)

\* str.replace(" ", "-")
replace_space(s) == [i \in 1..Len(s) |-> IF s[i] = " " THEN "-" ELSE s[i]]

\* lit occurs in s at position i
IsPrefixAt(s, i, lit) ==
    /\ i >= 1
    /\ i + Len(lit) - 1 <= Len(s)
    /\ \A k \in 1..Len(lit) : s[i + k - 1] = lit[k]

\* Python's `k in txt` for two strings
contains(txt, k) == \E i \in 1..(Len(txt) + 1) : IsPrefixAt(txt, i, k)

\* Python's `x in lst` for a list
in_list(x, lst) == \E i \in DOMAIN lst : lst[i] = x

\* s.split("/")[0]
split_slash_0(s) ==
    LET cuts == {i \in 1..Len(s) : s[i] = "/"}
    IN  IF cuts = {} THEN s
        ELSE SubSeq(s, 1, (CHOOSE i \in cuts : \A j \in cuts : i <= j) - 1)

-----------------------------------------------------------------------------
(* extract_repo_id: re.search(r"huggingface\.co/(?:models/)?([^/?#]+/[^/?#]+)") *)

HostSlash   == <<"h","u","g","g","i","n","g","f","a","c","e",".","c","o","/">>
ModelsSlash == <<"m","o","d","e","l","s","/">>
Delims      == {"/", "?", "#"}

\* one past the end of the maximal run of [^/?#] that starts at k
RunEnd(s, k) ==
    LET stops == {i \in k..Len(s) : s[i] \in Delims}
    IN  IF stops = {} THEN Len(s) + 1
        ELSE CHOOSE i \in stops : \A j \in stops : i <= j

\* ([^/?#]+/[^/?#]+) at position k: the captured text, or NoMatch.  Each class is
\* greedy and the first must be followed by "/", which no shorter run is.
GroupAt(s, k) ==
    LET e1 == RunEnd(s, k)
        e2 == RunEnd(s, e1 + 1)
    IN  IF e1 > k /\ e1 <= Len(s) /\ s[e1] = "/" /\ e2 > e1 + 1
        THEN SubSeq(s, k, e2 - 1)
        ELSE NoMatch

\* the whole pattern at position i: (?:models/)? is tried consumed first, then skipped
MatchAt(s, i) ==
    IF ~IsPrefixAt(s, i, HostSlash) THEN NoMatch
    ELSE LET j == i + Len(HostSlash)
             with_models == IF IsPrefixAt(s, j, ModelsSlash)
                            THEN GroupAt(s, j + Len(ModelsSlash)) ELSE NoMatch
         IN  IF with_models # NoMatch THEN with_models ELSE GroupAt(s, j)

\* re.search(...): m.group(1) of the leftmost match, or NoMatch
re_search_group1(s) ==
    LET hits == {i \in 1..Len(s) : MatchAt(s, i) # NoMatch}
    IN  IF hits = {} THEN NoMatch
        ELSE MatchAt(s, CHOOSE i \in hits : \A j \in hits : i <= j)

\* streamlit_app.py
extract_repo_id(url_or_id) ==
    LET m == re_search_group1(url_or_id)
    IN  IF m # NoMatch THEN m ELSE strip(url_or_id)

\* hf_modelcard_to_md.py
cli_extract_repo_id(url_or_id) ==
    LET m == re_search_group1(url_or_id)
    IN  IF m # NoMatch THEN m ELSE url_or_id

-----------------------------------------------------------------------------
(* The policy and the facts.                                               *)

\* the keys of the meta dict build_markdown_and_meta returns, as strings
key ==
    [repo_id       |-> <<"r","e","p","o","_","i","d">>,
     license       |-> <<"l","i","c","e","n","s","e">>,
     datasets      |-> <<"d","a","t","a","s","e","t","s">>,
     training_data |-> <<"t","r","a","i","n","i","n","g","_","d","a","t","a">>,
     data_license  |-> <<"d","a","t","a","_","l","i","c","e","n","s","e">>,
     downloads_30d |-> <<"d","o","w","n","l","o","a","d","s","_","3","0","d">>,
     last_modified |-> <<"l","a","s","t","_","m","o","d","i","f","i","e","d">>,
     likes         |-> <<"l","i","k","e","s">>,
     params_b      |-> <<"p","a","r","a","m","s","_","b">>,
     card_text     |-> <<"c","a","r","d","_","t","e","x","t">>]

\* the literal of lines 68-97
DefaultPolicyLiteral ==
    [weights |->
        [license |-> 2, data_transparency |-> 2, security_provenance |-> 2,
         maturity_support |-> 1, compliance_alignment |-> 2, technical_feasibility |-> 1],
     license |->
        [allow |-> <<<<"a","p","a","c","h","e","-","2",".","0">>,
                    <<"m","i","t">>,
                    <<"b","s","d","-","3","-","c","l","a","u","s","e">>,
                    <<"b","s","d","-","2","-","c","l","a","u","s","e">>>>,
         warn  |-> <<<<"c","c","-","b","y","-","4",".","0">>,
                    <<"l","g","p","l","-","3",".","0">>,
                    <<"m","p","l","-","2",".","0">>,
                    <<"e","p","l","-","2",".","0">>>>,
         deny  |-> <<<<"c","c","-","b","y","-","n","c","-","4",".","0">>,
                    <<"g","p","l","-","3",".","0">>,
                    <<"p","r","o","p","r","i","e","t","a","r","y">>,
                    <<"u","n","k","n","o","w","n">>,
                    <<"n","o","-","l","i","c","e","n","s","e">>>>],
     security_provenance |->
        [trusted_owners |-> <<<<"m","e","t","a","-","l","l","a","m","a">>,
                    <<"m","i","s","t","r","a","l","a","i">>,
                    <<"t","i","i","u","a","e">>,
                    <<"m","i","c","r","o","s","o","f","t">>,
                    <<"g","o","o","g","l","e">>,
                    <<"h","u","g","g","i","n","g","f","a","c","e">>>>,
         min_downloads_30d |-> 1000],
     data_transparency |->
        [require_any_of |-> <<<<"d","a","t","a","s","e","t","s">>,
                    <<"t","r","a","i","n","i","n","g","_","d","a","t","a">>,
                    <<"d","a","t","a","_","l","i","c","e","n","s","e">>>>],
     compliance_alignment |->
        [keywords_ok  |-> <<<<"h","i","p","a","a">>,
                    <<"p","c","i">>,
                    <<"g","d","p","r">>,
                    <<"p","i","i"," ","h","a","n","d","l","i","n","g">>,
                    <<"p","r","i","v","a","c","y">>>>,
         keywords_bad |-> <<<<"n","o"," ","r","e","s","t","r","i","c","t","i","o","n","s">>,
                    <<"u","n","r","e","s","t","r","i","c","t","e","d">>,
                    <<"n","o","t"," ","f","o","r"," ","p","r","o","d","u","c","t","i","o","n">>>>],
     technical_feasibility |->
        [max_params_b |-> 70, warn_params_b |-> 20]]

\* the alias table of normalize_license: <<key, value>> pairs
aliases ==
    <<<<<<"a","p","a","c","h","e","2">>,
        <<"a","p","a","c","h","e","-","2",".","0">>>>,
      <<<<"a","p","a","c","h","e","-","2">>,
        <<"a","p","a","c","h","e","-","2",".","0">>>>,
      <<<<"a","p","a","c","h","e","-","2",".","0">>,
        <<"a","p","a","c","h","e","-","2",".","0">>>>,
      <<<<"m","i","t">>,
        <<"m","i","t">>>>,
      <<<<"b","s","d">>,
        <<"b","s","d","-","3","-","c","l","a","u","s","e">>>>,
      <<<<"b","s","d","-","3">>,
        <<"b","s","d","-","3","-","c","l","a","u","s","e">>>>,
      <<<<"g","p","l">>,
        <<"g","p","l","-","3",".","0">>>>,
      <<<<"g","p","l","-","3">>,
        <<"g","p","l","-","3",".","0">>>>,
      <<<<"c","c","-","b","y","-","n","c">>,
        <<"c","c","-","b","y","-","n","c","-","4",".","0">>>>,
      <<<<"c","c","-","b","y","-","n","c","-","4",".","0">>,
        <<"c","c","-","b","y","-","n","c","-","4",".","0">>>>>>

unknown == <<"u","n","k","n","o","w","n">>

\* a mutation of normalize_license: the absent license is left empty
normalize_license_keeps_empty(lic) ==
    IF ~truthy(lic) THEN <<>>
    ELSE LET s == replace_space(lower(strip(lic.v)))
         IN  IF \E i \in DOMAIN aliases : aliases[i][1] = s
             THEN aliases[CHOOSE i \in DOMAIN aliases : aliases[i][1] = s][2]
             ELSE s

\* lic is None or a str
normalize_license(lic) ==
    IF ~truthy(lic) THEN unknown
    ELSE LET s == replace_space(lower(strip(lic.v)))
         IN  IF \E i \in DOMAIN aliases : aliases[i][1] = s
             THEN aliases[CHOOSE i \in DOMAIN aliases : aliases[i][1] = s][2]
             ELSE s

-----------------------------------------------------------------------------
(* Risk scoring engine.  A call returns [exc |-> "none", ...] or, when a    *)
(* subscript policy[...] names a missing key, [exc |-> "KeyError"].         *)
(* params_b is a float; the model holds it in tenths (705 is 70.5), and     *)
(* the rationale is held as its format string.                              *)

Result(score_, rationale) == [exc |-> "none", score |-> score_, rationale |-> rationale]
KeyError == [exc |-> "KeyError"]

\* policy[section][k] can be evaluated for every k of ks
has_keys(policy_, section, ks) ==
    /\ section \in DOMAIN policy_
    /\ \A k \in ks : k \in DOMAIN policy_[section]

\* a mutation of lines 198-206: a license in none of the buckets is a warning
eval_license_fail_open(meta, policy_) ==
    Bind(normalize_license(get(meta, key.license, PyNone)), LAMBDA lic :
        IF ~has_keys(policy_, "license", {"allow", "warn", "deny"}) THEN KeyError
        ELSE IF in_list(lic, policy_["license"]["allow"])
             THEN Result(0, "License {lic} is allowed")
        ELSE IF in_list(lic, policy_["license"]["warn"])
             THEN Result(1, "License {lic} requires caution")
        ELSE IF in_list(lic, policy_["license"]["deny"])
             THEN Result(2, "License {lic} is not permitted")
        ELSE Result(1, "License unknown or missing"))

\* lines 198-206
eval_license(meta, policy_) ==
    Bind(normalize_license(get(meta, key.license, PyNone)), LAMBDA lic :
        IF ~has_keys(policy_, "license", {"allow"}) THEN KeyError
        ELSE IF in_list(lic, policy_["license"]["allow"])
             THEN Result(0, "License {lic} is allowed")
        ELSE IF ~has_keys(policy_, "license", {"warn"}) THEN KeyError
        ELSE IF in_list(lic, policy_["license"]["warn"])
             THEN Result(1, "License {lic} requires caution")
        ELSE IF ~has_keys(policy_, "license", {"deny"}) THEN KeyError
        ELSE IF in_list(lic, policy_["license"]["deny"])
             THEN Result(2, "License {lic} is not permitted")
        ELSE Result(2, "License unknown or missing"))

\* lines 209-212
eval_data_transparency(meta, policy_) ==
    IF ~has_keys(policy_, "data_transparency", {"require_any_of"}) THEN KeyError
    ELSE LET fields  == policy_["data_transparency"]["require_any_of"]
             has_any == \E i \in DOMAIN fields : truthy(get(meta, fields[i], PyNone))
         IN  IF has_any THEN Result(0, "Datasets/training data disclosed")
             ELSE Result(1, "Data sources unclear")

\* a mutation of lines 215-223: downloads = meta.get("downloads_30d"), without `or 0`,
\* so that None >= min_downloads_30d raises TypeError
eval_security_provenance_no_default(meta, policy_) ==
    LET d == get(meta, key.downloads_30d, PyNone)
    IN  IF ~has_keys(policy_, "security_provenance", {"trusted_owners", "min_downloads_30d"})
        THEN KeyError
        ELSE LET owners  == policy_["security_provenance"]["trusted_owners"]
                 trusted == Bind(lower(split_slash_0(get(meta, key.repo_id, PyStr(<<>>)).v)),
                                 LAMBDA owner : in_list(owner, [i \in DOMAIN owners |-> lower(owners[i])]))
             IN  IF trusted THEN Result(0, "Trusted owner {owner}")
                 ELSE IF d.t = "NoneType" THEN [exc |-> "TypeError"]
                 ELSE IF d.v >= policy_["security_provenance"]["min_downloads_30d"]
                      THEN Result(1, "Community model with healthy adoption ({downloads} downloads/30d)")
                 ELSE Result(2, "Low-signal provenance (owner not trusted, low adoption)")

\* a mutation of lines 215-223: the policy's trusted owners are compared as written,
\* without .lower()
eval_security_provenance_case_sensitive(meta, policy_) ==
    LET d         == get(meta, key.downloads_30d, PyNone)
        downloads == IF truthy(d) THEN d.v ELSE 0
    IN  IF ~has_keys(policy_, "security_provenance", {"trusted_owners"}) THEN KeyError
        ELSE LET owners  == policy_["security_provenance"]["trusted_owners"]
                 trusted == Bind(lower(split_slash_0(get(meta, key.repo_id, PyStr(<<>>)).v)),
                                 LAMBDA owner : in_list(owner, owners))
             IN  IF trusted THEN Result(0, "Trusted owner {owner}")
                 ELSE IF ~has_keys(policy_, "security_provenance", {"min_downloads_30d"})
                      THEN KeyError
                 ELSE IF downloads >= policy_["security_provenance"]["min_downloads_30d"]
                      THEN Result(1, "Community model with healthy adoption ({downloads} downloads/30d)")
                 ELSE Result(2, "Low-signal provenance (owner not trusted, low adoption)")

\* lines 215-223
eval_security_provenance(meta, policy_) ==
    LET d         == get(meta, key.downloads_30d, PyNone)
        downloads == IF truthy(d) THEN d.v ELSE 0
    IN  IF ~has_keys(policy_, "security_provenance", {"trusted_owners"}) THEN KeyError
        ELSE LET owners  == policy_["security_provenance"]["trusted_owners"]
                 trusted == Bind(lower(split_slash_0(get(meta, key.repo_id, PyStr(<<>>)).v)),
                                 LAMBDA owner : in_list(owner, [i \in DOMAIN owners |-> lower(owners[i])]))
             IN  IF trusted THEN Result(0, "Trusted owner {owner}")
                 ELSE IF ~has_keys(policy_, "security_provenance", {"min_downloads_30d"})
                      THEN KeyError
                 ELSE IF downloads >= policy_["security_provenance"]["min_downloads_30d"]
                      THEN Result(1, "Community model with healthy adoption ({downloads} downloads/30d)")
                 ELSE Result(2, "Low-signal provenance (owner not trusted, low adoption)")

\* lines 226-231
eval_maturity_support(meta, policy_) ==
    LET last_mod == get(meta, key.last_modified, PyNone)
        l        == get(meta, key.likes, PyNone)
        likes    == IF truthy(l) THEN l.v ELSE 0
    IN  IF truthy(last_mod) \/ likes > 200
        THEN Result(0, "Active or well-liked repository")
        ELSE Result(1, "Limited maturity signals")

\* a mutation of lines 234-242: the ok keywords are tested before the bad ones
eval_compliance_ok_first(meta, policy_) ==
    LET c == get(meta, key.card_text, PyNone)
    IN  IF ~has_keys(policy_, "compliance_alignment", {"keywords_bad", "keywords_ok"}) THEN KeyError
        ELSE Bind(lower(IF truthy(c) THEN c.v ELSE <<>>), LAMBDA txt :
             LET kbad == policy_["compliance_alignment"]["keywords_bad"]
                 kok  == policy_["compliance_alignment"]["keywords_ok"]
                 bad  == \E i \in DOMAIN kbad : contains(txt, kbad[i])
                 ok   == \E i \in DOMAIN kok : contains(txt, kok[i])
             IN  IF ok THEN Result(0, "Mentions compliance considerations")
                 ELSE IF bad THEN Result(2, "Problematic compliance language in card")
                 ELSE Result(1, "No explicit compliance guidance in card"))

\* lines 234-242
eval_compliance_alignment(meta, policy_) ==
    LET c == get(meta, key.card_text, PyNone)
    IN  IF ~has_keys(policy_, "compliance_alignment", {"keywords_bad", "keywords_ok"}) THEN KeyError
        ELSE Bind(lower(IF truthy(c) THEN c.v ELSE <<>>), LAMBDA txt :
             LET kbad == policy_["compliance_alignment"]["keywords_bad"]
                 kok  == policy_["compliance_alignment"]["keywords_ok"]
                 bad  == \E i \in DOMAIN kbad : contains(txt, kbad[i])
                 ok   == \E i \in DOMAIN kok : contains(txt, kok[i])
             IN  IF bad THEN Result(2, "Problematic compliance language in card")
                 ELSE IF ok THEN Result(0, "Mentions compliance considerations")
                 ELSE Result(1, "No explicit compliance guidance in card"))

\* a mutation of lines 245-253: the max check is >= instead of >
eval_technical_feasibility_ge(meta, policy_) ==
    LET params_b == get(meta, key.params_b, PyNone)
    IN  IF params_b.t = "NoneType"
        THEN Result(1, "Model size not stated; capacity risk unknown")
        ELSE IF ~has_keys(policy_, "technical_feasibility", {"max_params_b"}) THEN KeyError
        ELSE IF params_b.v >= 10 * policy_["technical_feasibility"]["max_params_b"]
             THEN Result(2, "Very large model (~{params_b}B) may exceed infra appetite")
        ELSE IF ~has_keys(policy_, "technical_feasibility", {"warn_params_b"}) THEN KeyError
        ELSE IF params_b.v > 10 * policy_["technical_feasibility"]["warn_params_b"]
             THEN Result(1, "Large model (~{params_b}B); review infra cost/latency")
        ELSE Result(0, "Model size (~{params_b}B) within appetite")

\* lines 245-253
eval_technical_feasibility(meta, policy_) ==
    LET params_b == get(meta, key.params_b, PyNone)
    IN  IF params_b.t = "NoneType"
        THEN Result(1, "Model size not stated; capacity risk unknown")
        ELSE IF ~has_keys(policy_, "technical_feasibility", {"max_params_b"}) THEN KeyError
        ELSE IF params_b.v > 10 * policy_["technical_feasibility"]["max_params_b"]
             THEN Result(2, "Very large model (~{params_b}B) may exceed infra appetite")
        ELSE IF ~has_keys(policy_, "technical_feasibility", {"warn_params_b"}) THEN KeyError
        ELSE IF params_b.v > 10 * policy_["technical_feasibility"]["warn_params_b"]
             THEN Result(1, "Large model (~{params_b}B); review infra cost/latency")
        ELSE Result(0, "Model size (~{params_b}B) within appetite")

evaluate_dimension(name, meta, policy_) ==
    CASE name = "license"               -> eval_license(meta, policy_)
      [] name = "data_transparency"     -> eval_data_transparency(meta, policy_)
      [] name = "security_provenance"   -> eval_security_provenance(meta, policy_)
      [] name = "maturity_support"      -> eval_maturity_support(meta, policy_)
      [] name = "compliance_alignment"  -> eval_compliance_alignment(meta, policy_)
      [] name = "technical_feasibility" -> eval_technical_feasibility(meta, policy_)
      [] OTHER                          -> Result(1, "Not evaluated")

\* line 258
dims == <<"license", "data_transparency", "security_provenance",
          "maturity_support", "compliance_alignment", "technical_feasibility">>

\* a mutation of lines 268-269: the band comparisons are < instead of <=
pct_lt(total, max_total, num, den) ==
    IF max_total > 0 THEN den * total < num * max_total
    ELSE den * total > num * max_total

\* total / max_total <= num / den, for max_total # 0 and den > 0
pct_le(total, max_total, num, den) ==
    IF max_total > 0 THEN den * total <= num * max_total
    ELSE den * total >= num * max_total

\* round(pct * 100, 1) in tenths of a percent: the nearest tenth, a tie to the even one
percent_tenths(total, max_total) ==
    IF max_total = 0 THEN 0
    ELSE LET n == IF max_total > 0 THEN 1000 * total ELSE -(1000 * total)
             m == IF max_total > 0 THEN max_total ELSE -max_total
             q == n \div m
             r == n - q * m
         IN  IF 2 * r < m THEN q
             ELSE IF 2 * r > m THEN q + 1
             ELSE IF q % 2 = 0 THEN q ELSE q + 1

\* sum of f[dims[i]] for i in 1..n
RECURSIVE sum_dims(_, _)
sum_dims(f, n) == IF n = 0 THEN 0 ELSE f[dims[n]] + sum_dims(f, n - 1)

DimSet == {dims[i] : i \in DOMAIN dims}

\* lines 265-270 for the six results res and weights w, with the max_total guard of
\* line 268 or without it (a division by zero raises ZeroDivisionError).
\* 0.25 is 1/4; 0.6 and 3/5 round to the same float, as does every total / max_total
\* equal to 3/5, so the comparisons are those of the exact ratios.
aggregate(res, w, total, max_total, guarded) ==
    IF max_total = 0 /\ ~guarded THEN [exc |-> "ZeroDivisionError"]
    ELSE [exc |-> "none",
          overall |-> [score |-> total, max |-> max_total,
                       band |-> IF max_total = 0 \/ pct_le(total, max_total, 1, 4) THEN "Green"
                                ELSE IF pct_le(total, max_total, 3, 5) THEN "Yellow"
                                ELSE "Red",
                       percent_tenths |-> percent_tenths(total, max_total)],
          details |-> [d \in DimSet |->
                          [score |-> res[d].score, rationale |-> res[d].rationale,
                           weight |-> w[d], weighted |-> res[d].score * w[d]]]]

\* the loop of lines 262-267 over the results res and weights w
accumulate(res, w, guarded) ==
    IF \E d \in DimSet : res[d].exc # "none" THEN KeyError
    ELSE Bind(sum_dims([d \in DimSet |-> res[d].score * w[d]], Len(dims)), LAMBDA total :
         Bind(sum_dims([d \in DimSet |-> 2 * w[d]], Len(dims)), LAMBDA max_total :
              aggregate(res, w, total, max_total, guarded)))

\* a mutation of score_model: pct = total / max_total, without `if max_total else 0`
score_model_unguarded(meta, policy_) ==
    IF "weights" \notin DOMAIN policy_ THEN KeyError
    ELSE Bind([d \in DimSet |-> evaluate_dimension(d, meta, policy_)], LAMBDA res :
         Bind([d \in DimSet |-> get(policy_["weights"], d, 1)], LAMBDA w :
              accumulate(res, w, FALSE)))

\* lines 257-270
score_model(meta, policy_) ==
    IF "weights" \notin DOMAIN policy_ THEN KeyError
    ELSE Bind([d \in DimSet |-> evaluate_dimension(d, meta, policy_)], LAMBDA res :
         Bind([d \in DimSet |-> get(policy_["weights"], d, 1)], LAMBDA w :
              accumulate(res, w, TRUE)))

-----------------------------------------------------------------------------
(* Policy store and policy editor.  risk_policy.json is [kind, content]:    *)
(* "absent", "valid" (content is the dict json.load builds), "malformed"    *)
(* (not JSON) or "denied" (open() is refused).                              *)

\* lines 99-104: the dict json.load built, or a reference to DEFAULT_POLICY itself when
\* open() raises FileNotFoundError; any other exception propagates
load_policy(f) ==
    CASE f.kind = "valid"     -> [exc |-> "none", ref |-> "loaded", value |-> f.content]
      [] f.kind = "absent"    -> [exc |-> "none", ref |-> "DEFAULT_POLICY", value |-> <<>>]
      [] f.kind = "malformed" -> [exc |-> "JSONDecodeError"]
      [] f.kind = "denied"    -> [exc |-> "PermissionError"]

\* a widget the user left alone returns its default, the value passed to it
Untouched  == [touched |-> FALSE]
Entered(v) == [touched |-> TRUE, v |-> v]
widget(w, default) == IF w.touched THEN w.v ELSE default

\* [s.strip() for s in text.split(",") if s.strip()], the text being the widget's
\* value: the pieces entered, or ",".join(current) (entries hold no comma)
split_strip(w, current) ==
    LET pieces == widget(w, current)
        kept   == SelectSeq(pieces, LAMBDA x : strip(x) # <<>>)
    IN  [i \in DOMAIN kept |-> strip(kept[i])]

\* [s.strip().lower() for s in text.split(",") if s.strip()]
split_strip_lower(w, current) ==
    LET kept == split_strip(w, current)
    IN  [i \in DOMAIN kept |-> lower(kept[i])]

\* lines 113-115: one slider per key of policy.get("weights", {}); w maps the sliders
\* the user moved to their values
edited_weights(policy_, w) ==
    LET cur == get(policy_, "weights", <<>>)
    IN  [k \in DOMAIN cur |-> IF k \in DOMAIN w THEN w[k] ELSE cur[k]]

\* lines 107-182: the dict `policy` refers to after the call, which assigns into it
\* key by key; policy["license"] raises KeyError after "weights" was assigned
render_policy_editor(policy_, w) ==
    IF "license" \notin DOMAIN policy_
    THEN [exc |-> "KeyError", policy |-> [weights |-> edited_weights(policy_, w.weights)] @@ policy_]
    ELSE [exc |-> "none",
          policy |->
            [weights |-> edited_weights(policy_, w.weights),
             license |->
                [allow |-> split_strip(w.allow, policy_["license"]["allow"]),
                 warn  |-> split_strip(w.warn, policy_["license"]["warn"]),
                 deny  |-> split_strip(w.deny, policy_["license"]["deny"])],
             security_provenance |->
                [trusted_owners |->
                    split_strip(w.owners, policy_["security_provenance"]["trusted_owners"]),
                 min_downloads_30d |->
                    widget(w.min_downloads, policy_["security_provenance"]["min_downloads_30d"])],
             data_transparency |->
                [require_any_of |->
                    split_strip(w.req_any, policy_["data_transparency"]["require_any_of"])],
             compliance_alignment |->
                [keywords_ok  |->
                    split_strip_lower(w.ok, policy_["compliance_alignment"]["keywords_ok"]),
                 keywords_bad |->
                    split_strip_lower(w.bad, policy_["compliance_alignment"]["keywords_bad"])],
             technical_feasibility |->
                [warn_params_b |-> widget(w.warn_params, policy_["technical_feasibility"]["warn_params_b"]),
                 max_params_b  |-> widget(w.max_params, policy_["technical_feasibility"]["max_params_b"])]]]

\* lines 184-191: the file after the attempt, and what the call returns
try_persist_policy(policy_, f, writable) ==
    IF writable THEN [file |-> [kind |-> "valid", content |-> policy_], returns |-> TRUE]
    ELSE [file |-> f, returns |-> FALSE]

-----------------------------------------------------------------------------
(* The meta dict of lines 318-329, and the inputs the evaluator is run on.  *)

\* lines 318-329: training_data is the datasets list again
meta_dict(repo_id, license_, datasets, data_license, downloads, last_mod, likes, params_b, card_text) ==
    (key.repo_id :> repo_id) @@ (key.license :> license_) @@ (key.datasets :> datasets)
    @@ (key.training_data :> datasets) @@ (key.data_license :> data_license)
    @@ (key.downloads_30d :> downloads) @@ (key.last_modified :> last_mod)
    @@ (key.likes :> likes) @@ (key.params_b :> params_b) @@ (key.card_text :> card_text)

\* the longest card text, in words
MaxWords == 2

Words == {<<"G","D","P","R">>, <<"U","n","r","e","s","t","r","i","c","t","e","d">>}

\* texts of at most n words, separated by one space
RECURSIVE Texts(_)
Texts(n) ==
    IF n = 0 THEN {<<>>}
    ELSE Texts(n - 1) \cup Words
         \cup {x \o <<" ">> \o w : x \in Texts(n - 1) \ {<<>>}, w \in Words}

LicenseInputs ==
    {PyNone, PyStr(<<>>), PyStr(<<"a","p","a","c","h","e","-","2",".","0">>),
     PyStr(<<"A","p","a","c","h","e"," ","2",".","0">>), PyStr(<<" ","M","I","T","\n">>),
     PyStr(<<"l","l","a","m","a","3",".","1">>), PyStr(<<"c","c","-","b","y","-","4",".","0">>)}

RepoInputs == {<<"m","e","t","a","-","l","l","a","m","a","/","L","l","a","m","a","-","3",".","1","-","8","B">>,
               <<"B","o","b","/","m">>}

\* tenths of a billion parameters, around the thresholds of the policies
ParamsInputs == {PyNone, PyNum(200), PyNum(205), PyNum(700), PyNum(705)}

DownloadsInputs == {PyNone, PyNum(999)}

\* <<last_modified, likes>>
MaturityInputs == {<<PyNone, PyNum(200)>>,
                   <<PyStr(<<"2","0","2","4">>), PyNone>>}

DatasetsInputs == {PyList(<<>>), PyList(<<<<"s","q","u","a","d">>>>)}

Facts ==
    {meta_dict(PyStr(r), l, ds, PyNone, dl, m[1], m[2], p, PyStr(txt)) :
        r \in RepoInputs, l \in LicenseInputs, ds \in DatasetsInputs, dl \in DownloadsInputs,
        m \in MaturityInputs, p \in ParamsInputs, txt \in Texts(MaxWords)}

\* a policy whose rule sets are all empty
EmptyRules ==
    [license |-> [allow |-> <<>>, warn |-> <<>>, deny |-> <<>>],
     security_provenance |-> [trusted_owners |-> <<>>, min_downloads_30d |-> 0],
     data_transparency |-> [require_any_of |-> <<>>],
     compliance_alignment |-> [keywords_ok |-> <<>>, keywords_bad |-> <<>>],
     technical_feasibility |-> [max_params_b |-> 0, warn_params_b |-> 0]]

\* a policy whose buckets overlap, whose keywords overlap and whose thresholds coincide
CustomRules ==
    [license |-> [allow |-> <<<<"m","i","t">>, <<"u","n","k","n","o","w","n">>>>,
                  warn  |-> <<<<"m","i","t">>, <<"c","c","-","b","y","-","4",".","0">>, <<"l","l","a","m","a","3",".","1">>>>,
                  deny  |-> <<<<"c","c","-","b","y","-","4",".","0">>, <<"a","p","a","c","h","e","-","2",".","0">>>>],
     security_provenance |-> [trusted_owners |-> <<<<"B","O","B">>>>, min_downloads_30d |-> 999],
     data_transparency |-> [require_any_of |-> <<<<"l","i","k","e","s">>, <<"n","o","s","u","c","h">>>>],
     compliance_alignment |-> [keywords_ok  |-> <<<<"g","d","p","r">>, <<"u","n","r","e","s","t","r","i","c","t","e","d">>>>,
                               keywords_bad |-> <<<<"u","n","r","e","s","t","r","i","c","t","e","d">>, <<"G","D","P","R">>>>],
     technical_feasibility |-> [max_params_b |-> 20, warn_params_b |-> 20]]

with_weights(rules, w) == [weights |-> w] @@ rules

ZeroWeights == [d \in DimSet |-> 0]

\* weights of a hand-written override: one key missing, the slider's extremes
PartialWeights ==
    [data_transparency |-> 5, security_provenance |-> 0, maturity_support |-> 3,
     compliance_alignment |-> 1, technical_feasibility |-> 5]

Policies ==
    {DefaultPolicyLiteral,
     with_weights(EmptyRules, DefaultPolicyLiteral.weights),
     [DefaultPolicyLiteral EXCEPT !.weights = ZeroWeights],
     with_weights(CustomRules, PartialWeights),
     with_weights(CustomRules, ZeroWeights)}

-----------------------------------------------------------------------------
(* Specification SpecScore: the evaluator applied to every facts and policy *)

ExIdle  == ex_module = "idle" /\ ex_trace = <<>>
ScIdle  == sc_meta = <<>> /\ sc_policy = <<>> /\ sc_call = "idle" /\ sc_result = <<>>
AppIdle == /\ pc = "idle" /\ file = <<>> /\ DEFAULT_POLICY = <<>> /\ policy = "unbound"
           /\ loaded = <<>> /\ flow_policy = <<>> /\ fetch = "idle" /\ score = <<>>
           /\ outputs = <<>> /\ messages = <<>> /\ cache = {}

InitScore ==
    /\ sc_meta \in Facts
    /\ sc_policy \in Policies
    /\ sc_call = "none"
    /\ sc_result = <<>>
    /\ ExIdle /\ AppIdle

EvaluateDimension(d) ==
    /\ sc_call = "none"
    /\ sc_call' = d
    /\ sc_result' = evaluate_dimension(d, sc_meta, sc_policy)
    /\ UNCHANGED <<sc_meta, sc_policy, exVars, appVars>>

ScoreModel ==
    /\ sc_call = "none"
    /\ sc_call' = "score_model"
    /\ sc_result' = score_model(sc_meta, sc_policy)
    /\ UNCHANGED <<sc_meta, sc_policy, exVars, appVars>>

NextScore ==
    \/ \E d \in DimSet : EvaluateDimension(d)
    \/ ScoreModel

SpecScore == InitScore /\ [][NextScore]_vars

-----------------------------------------------------------------------------
(* Specification Spec: runs of the script streamlit_app.py.  Streamlit runs *)
(* the script from its first line on every interaction, so each run starts  *)
(* with DEFAULT_POLICY assigned its literal; risk_policy.json and the       *)
(* st.cache_data cache outlive a run.                                       *)

\* what the user may type in the text input of line 367
UserInputs ==
    {<<>>, <<" ">>,
     <<"m","e","t","a","-","l","l","a","m","a","/","L","l","a","m","a","-","3",".","1","-","8","B">>,
     <<"h","t","t","p","s",":","/","/","h","u","g","g","i","n","g","f","a","c","e",".","c","o","/","B","o","b","/","m"," ">>}

\* what the hub holds for a repo id: the facts build_markdown_and_meta extracts from
\* it (the Markdown summary and parse_params_b are not modelled: params_b is given)
HubMeta(repo_id) ==
    IF repo_id = <<"m","e","t","a","-","l","l","a","m","a","/","L","l","a","m","a","-","3",".","1","-","8","B">>
    THEN meta_dict(PyStr(repo_id), PyStr(<<"l","l","a","m","a","3",".","1">>), PyList(<<>>), PyNone,
                   PyNum(5000), PyStr(<<"2","0","2","4">>), PyNum(300), PyNum(80), PyStr(<<"G","D","P","R">>))
    ELSE meta_dict(PyStr(repo_id), PyNone, PyList(<<<<"s","q","u","a","d">>>>), PyNone,
                   PyNum(0), PyNone, PyNum(0), PyNone, PyStr(<<"U","n","r","e","s","t","r","i","c","t","e","d">>))

\* how ModelCard.load / model_info may end (lines 277-278)
FetchOutcomes == {"ok", "NotFound", "Unauthorized", "ConnectionError"}

\* risk_policy.json as the script may find it; {} is valid JSON that holds no section
FileInputs ==
    {[kind |-> "absent", content |-> <<>>],
     [kind |-> "valid", content |-> with_weights(CustomRules, PartialWeights)],
     [kind |-> "valid", content |-> <<>>],
     [kind |-> "malformed", content |-> <<>>],
     [kind |-> "denied", content |-> <<>>]}

\* what the user may do to the editor's widgets
NoEdit ==
    [weights |-> <<>>, allow |-> Untouched, warn |-> Untouched, deny |-> Untouched,
     owners |-> Untouched, min_downloads |-> Untouched, req_any |-> Untouched,
     ok |-> Untouched, bad |-> Untouched, warn_params |-> Untouched, max_params |-> Untouched]

WidgetInputs ==
    {NoEdit,
     [NoEdit EXCEPT !.weights = [license |-> 5]],
     [NoEdit EXCEPT !.allow = Entered(<<<<" ","L","L","a","M","A","3",".","1"," ">>, <<" ">>>>),
                    !.bad = Entered(<<<<"G","D","P","R">>>>),
                    !.max_params = Entered(7)]}

\* the output elements of lines 405-428, in the order the script emits them
OutputOrder ==
    <<"success: Generated!", "download: Model Summary (Markdown)", "subheader: Risk Score",
      "markdown: Overall", "download: Risk Scorecard (Markdown)", "download: Risk Score (JSON)",
      "preview: Model Summary (Markdown)", "preview: Risk Scorecard (Markdown)">>

Msg(via, text, exc, raised_by) == [via |-> via, text |-> text, exc |-> exc, raised_by |-> raised_by]

\* the dict the name `policy` refers to
PolicyValue == IF policy = "DEFAULT_POLICY" THEN DEFAULT_POLICY ELSE loaded

\* a mutation of the try block of lines 378-432: the exception is swallowed where it is
\* raised and the block goes on
try_next_swallowed(raised, next_pc) == next_pc

\* lines 378-432: where the script is after a statement of the try block: an exception
\* is caught at line 430 and st.stop() ends the run
try_next(raised, next_pc) == IF raised THEN "stopped" ELSE next_pc

\* lines 430-431
failed_message(exc, raised_by) ==
    Msg("st.error", "Failed to build Markdown or score model: {e}", exc, raised_by)

Init ==
    /\ pc = "load"
    /\ file \in FileInputs
    /\ DEFAULT_POLICY = DefaultPolicyLiteral
    /\ policy = "unbound"
    /\ loaded = <<>>
    /\ flow_policy = <<>>
    /\ fetch = [status |-> "none", repo_id |-> <<>>, meta |-> <<>>]
    /\ score = [exc |-> "not called"]
    /\ outputs = <<>>
    /\ messages = <<>>
    /\ cache = {}
    /\ ExIdle /\ ScIdle

\* lines 336-337: policy = load_policy(policy_path); an exception ends the run uncaught
LoadPolicyAtStartup ==
    /\ pc = "load"
    /\ LET r == load_policy(file)
       IN  IF r.exc # "none"
           THEN /\ pc' = "crashed"
                /\ messages' = Append(messages, Msg("uncaught", "", r.exc, "load_policy"))
                /\ UNCHANGED <<policy, loaded>>
           ELSE /\ pc' = "sidebar"
                /\ policy' = r.ref
                /\ loaded' = r.value
                /\ UNCHANGED messages
    /\ UNCHANGED <<file, DEFAULT_POLICY, flow_policy, fetch, score, outputs, cache, exVars, scVars>>

\* lines 340-350: the PIN is wrong, or the checkbox is not ticked
SkipPolicyEditor ==
    /\ pc = "sidebar"
    /\ \E pin_ok \in BOOLEAN :
          messages' = IF pin_ok THEN messages
                      ELSE Append(messages, Msg("st.info", "Enter correct PIN to edit policy.", "", ""))
    /\ pc' = "input"
    /\ UNCHANGED <<file, DEFAULT_POLICY, policy, loaded, flow_policy, fetch, score, outputs, cache,
                   exVars, scVars>>

\* line 351: policy = render_policy_editor(policy), which assigns into the dict it is
\* handed: DEFAULT_POLICY itself when load_policy returned it
RenderPolicyEditor ==
    /\ pc = "sidebar"
    /\ \E w \in WidgetInputs :
         LET r == render_policy_editor(PolicyValue, w)
         IN  /\ IF policy = "DEFAULT_POLICY"
                THEN DEFAULT_POLICY' = r.policy /\ UNCHANGED loaded
                ELSE loaded' = r.policy /\ UNCHANGED DEFAULT_POLICY
             /\ IF r.exc # "none"
                THEN /\ pc' = "crashed"
                     /\ messages' = Append(messages, Msg("uncaught", "", r.exc, "render_policy_editor"))
                ELSE /\ pc' = "editor_buttons"
                     /\ UNCHANGED messages
    /\ UNCHANGED <<file, policy, flow_policy, fetch, score, outputs, cache, exVars, scVars>>

\* lines 354-358: the Save button was clicked
SavePolicyToFile ==
    /\ pc = "editor_buttons"
    /\ \E writable \in BOOLEAN :
         LET r == try_persist_policy(PolicyValue, file, writable)
         IN  /\ file' = r.file
             /\ messages' = Append(messages,
                    IF r.returns THEN Msg("st.success", "Policy saved to risk_policy.json", "", "")
                    ELSE Msg("st.warning", "Could not write to disk", "", ""))
    /\ pc' = "input"
    /\ UNCHANGED <<DEFAULT_POLICY, policy, loaded, flow_policy, fetch, score, outputs, cache,
                   exVars, scVars>>

\* line 354: the Save button was not clicked
SkipSave ==
    /\ pc = "editor_buttons"
    /\ pc' = "input"
    /\ UNCHANGED <<file, DEFAULT_POLICY, policy, loaded, flow_policy, fetch, score, outputs,
                   messages, cache, exVars, scVars>>

\* line 374: the Generate button was not clicked
NoGenerate ==
    /\ pc = "input"
    /\ pc' = "done"
    /\ UNCHANGED <<file, DEFAULT_POLICY, policy, loaded, flow_policy, fetch, score, outputs,
                   messages, cache, exVars, scVars>>

\* lines 375-376: Generate was clicked on an input that is empty once stripped
GenerateEmptyInput ==
    /\ pc = "input"
    /\ \E user_input \in UserInputs : strip(user_input) = <<>>
    /\ messages' = Append(messages,
            Msg("st.error", "Please paste a Hugging Face model URL or repo ID.", "", ""))
    /\ pc' = "done"
    /\ UNCHANGED <<file, DEFAULT_POLICY, policy, loaded, flow_policy, fetch, score, outputs,
                   cache, exVars, scVars>>

\* lines 380-383: repo_id = extract_repo_id(user_input); built = build_markdown_and_meta(repo_id),
\* served from the cache when it holds repo_id, fetched from the hub otherwise
GenerateFetch ==
    /\ pc = "input"
    /\ \E user_input \in UserInputs, hub \in FetchOutcomes :
         LET repo_id == extract_repo_id(user_input)
             outcome == IF repo_id \in cache THEN "ok" ELSE hub
             raised  == outcome # "ok"
         IN  /\ strip(user_input) # <<>>
             /\ fetch' = [status |-> outcome, repo_id |-> repo_id,
                          meta |-> IF raised THEN <<>> ELSE HubMeta(repo_id)]
             /\ cache' = IF raised THEN cache ELSE cache \cup {repo_id}
             /\ messages' = IF raised
                            THEN Append(messages, failed_message(outcome, "build_markdown_and_meta"))
                            ELSE messages
             /\ pc' = try_next(raised, "flow_load")
    /\ UNCHANGED <<file, DEFAULT_POLICY, policy, loaded, flow_policy, score, outputs, exVars, scVars>>

\* lines 386-387: policy = load_policy(policy_path), inside the try block
GenerateLoadPolicy ==
    /\ pc = "flow_load"
    /\ LET r == load_policy(file)
           raised == r.exc # "none"
       IN  /\ IF raised
              THEN /\ messages' = Append(messages, failed_message(r.exc, "load_policy"))
                   /\ UNCHANGED <<policy, loaded, flow_policy>>
              ELSE /\ policy' = r.ref
                   /\ loaded' = r.value
                   /\ flow_policy' = IF r.ref = "DEFAULT_POLICY" THEN DEFAULT_POLICY ELSE r.value
                   /\ UNCHANGED messages
           /\ pc' = try_next(raised, "flow_score")
    /\ UNCHANGED <<file, DEFAULT_POLICY, fetch, score, outputs, cache, exVars, scVars>>

\* lines 389-402: score = score_model(meta, policy), and the scorecard text built from it
GenerateScore ==
    /\ pc = "flow_score"
    /\ LET r == score_model(fetch.meta, PolicyValue)
           raised == r.exc # "none"
       IN  /\ score' = r
           /\ messages' = IF raised THEN Append(messages, failed_message(r.exc, "score_model"))
                          ELSE messages
           /\ pc' = try_next(raised, "flow_emit")
    /\ UNCHANGED <<file, DEFAULT_POLICY, policy, loaded, flow_policy, fetch, outputs, cache,
                   exVars, scVars>>

\* lines 405-428: the next output element
EmitOutput ==
    /\ pc = "flow_emit"
    /\ outputs' = Append(outputs, OutputOrder[Len(outputs) + 1])
    /\ pc' = IF Len(outputs) + 1 = Len(OutputOrder) THEN "done" ELSE "flow_emit"
    /\ UNCHANGED <<file, DEFAULT_POLICY, policy, loaded, flow_policy, fetch, score, messages,
                   cache, exVars, scVars>>

\* the next interaction: Streamlit runs the script again from line 1
Rerun ==
    /\ pc \in {"done", "stopped", "crashed"}
    /\ pc' = "load"
    /\ DEFAULT_POLICY' = DefaultPolicyLiteral
    /\ policy' = "unbound"
    /\ loaded' = <<>>
    /\ flow_policy' = <<>>
    /\ fetch' = [status |-> "none", repo_id |-> <<>>, meta |-> <<>>]
    /\ score' = [exc |-> "not called"]
    /\ outputs' = <<>>
    /\ messages' = <<>>
    /\ UNCHANGED <<file, cache, exVars, scVars>>

Next ==
    \/ LoadPolicyAtStartup
    \/ SkipPolicyEditor
    \/ RenderPolicyEditor
    \/ SavePolicyToFile
    \/ SkipSave
    \/ NoGenerate
    \/ GenerateEmptyInput
    \/ GenerateFetch
    \/ GenerateLoadPolicy
    \/ GenerateScore
    \/ EmitOutput
    \/ Rerun

Spec == Init /\ [][Next]_vars

-----------------------------------------------------------------------------
(* Claims about the policy store and the generate flow, under Spec.         *)

\* C2: the built-in default policy is never contaminated by caller edits: DEFAULT_POLICY
\* equals its literal in every reachable state, and a load_policy with no override file
\* returns a policy equal to the built-in default whatever was edited before (the claim
\* as stated).
C2_DefaultNeverContaminated ==
    /\ DEFAULT_POLICY = DefaultPolicyLiteral
    /\ (pc = "flow_score" /\ policy = "DEFAULT_POLICY") => flow_policy = DefaultPolicyLiteral

\* C3: policy loading never surfaces an error: load_policy returns the override when the
\* file is readable and the built-in default when the file is absent or unreadable, and
\* no exception of load_policy reaches the caller (the claim as stated).
C3_PolicyLoadNeverFails ==
    /\ \A i \in DOMAIN messages : messages[i].raised_by # "load_policy"
    /\ pc = "sidebar" =>
          IF file.kind = "valid" THEN policy = "loaded" /\ loaded = file.content
          ELSE policy = "DEFAULT_POLICY"

\* C4: a failed fetch aborts the request with no partial output: when
\* build_markdown_and_meta fails (NotFound, Unauthorized or any other error) the failure
\* message is shown, the run is stopped and no output element exists; output elements
\* exist only once both the fetch and score_model have completed successfully.
C4_FailedFetchNoPartialOutput ==
    /\ fetch.status \notin {"none", "ok"} =>
          /\ outputs = <<>>
          /\ pc = "stopped"
          /\ messages # <<>>
          /\ messages[Len(messages)] = failed_message(fetch.status, "build_markdown_and_meta")
    /\ outputs # <<>> =>
          /\ fetch.status = "ok"
          /\ score.exc = "none"
          /\ \A i \in DOMAIN messages : messages[i].via # "st.error"

\* C4 witness: the fetch has failed with NotFound and the run is stopped with nothing
\* emitted
C4_Witness ==
    /\ fetch.status = "NotFound"
    /\ pc = "stopped"
    /\ outputs = <<>>
    /\ \E i \in DOMAIN messages : messages[i].via = "st.error"

-----------------------------------------------------------------------------
(* Specification SpecExtract: extract_repo_id applied, and applied again to *)
(* its own result, on inputs built from the pieces of a model URL.          *)

\* the longest input, in pieces
MaxTokens == 5
\* how many times extract_repo_id is applied to its own result
MaxApply == 2

UrlTokens == {<<"h","t","t","p","s",":","/","/","h","u","g","g","i","n","g","f","a","c","e",".","c","o","/">>,
              ModelsSlash, <<"o">>, <<"/">>, <<" ">>, <<"?">>}

RECURSIVE UrlInputs(_)
UrlInputs(n) ==
    IF n = 0 THEN {<<>>}
    ELSE UrlInputs(n - 1) \cup {x \o tok : x \in UrlInputs(n - 1), tok \in UrlTokens}

InitExtract ==
    /\ ex_module \in {"app", "cli"}
    /\ \E url_or_id \in UrlInputs(MaxTokens) : ex_trace = <<url_or_id>>
    /\ ScIdle /\ AppIdle

\* streamlit_app.py's extract_repo_id, called on the last result
ExtractRepoIdApp ==
    /\ ex_module = "app"
    /\ Len(ex_trace) <= MaxApply
    /\ ex_trace' = Append(ex_trace, extract_repo_id(ex_trace[Len(ex_trace)]))
    /\ UNCHANGED <<ex_module, scVars, appVars>>

\* hf_modelcard_to_md.py's extract_repo_id, called on the last result
ExtractRepoIdCli ==
    /\ ex_module = "cli"
    /\ Len(ex_trace) <= MaxApply
    /\ ex_trace' = Append(ex_trace, cli_extract_repo_id(ex_trace[Len(ex_trace)]))
    /\ UNCHANGED <<ex_module, scVars, appVars>>

NextExtract == ExtractRepoIdApp \/ ExtractRepoIdCli

SpecExtract == InitExtract /\ [][NextExtract]_vars

\* C1: identifier extraction is idempotent: applying extract_repo_id to its own
\* result returns that result (the claim as stated, for both files).
C1_ExtractIdempotent ==
    Len(ex_trace) >= 3 => ex_trace[3] = ex_trace[2]

-----------------------------------------------------------------------------
(* Claims about the risk evaluator, under SpecScore.                        *)

\* the result of the last call is that of a completed call with this score
Scored(n) == sc_result.exc = "none" /\ sc_result.score = n

\* C5: the License dimension is fail-closed for every policy: with L the normalized
\* license, the score is 0 if L is in the allow list, otherwise 1 if L is in the warn
\* list, otherwise 2; "apache-2.0" scores 0 and "llama3.1" scores 2 under the default
\* license buckets.
C5_LicenseFailClosed ==
    sc_call = "license" =>
        LET L == normalize_license(sc_meta[key.license])
            b == sc_policy["license"]
        IN  /\ Scored(IF in_list(L, b.allow) THEN 0 ELSE IF in_list(L, b.warn) THEN 1 ELSE 2)
            /\ (b = DefaultPolicyLiteral.license /\ sc_meta[key.license] = PyStr(<<"a","p","a","c","h","e","-","2",".","0">>))
                    => Scored(0)
            /\ (b = DefaultPolicyLiteral.license /\ sc_meta[key.license] = PyStr(<<"l","l","a","m","a","3",".","1">>))
                    => Scored(2)

\* C5 witness: a license in none of the three lists has been scored 2
C5_Witness ==
    /\ sc_call = "license"
    /\ sc_meta[key.license] = PyStr(<<"l","l","a","m","a","3",".","1">>)
    /\ sc_policy["license"] = DefaultPolicyLiteral.license
    /\ ~in_list(<<"l","l","a","m","a","3",".","1">>, sc_policy["license"].deny)
    /\ Scored(2)

\* C6: for all facts whose license is absent (None or the empty string), whatever the
\* other fields, the absent license normalizes to "unknown" and the License score under
\* the default policy is 2.
C6_AbsentLicenseScoresTwo ==
    (/\ sc_call = "license"
     /\ sc_meta[key.license] \in {PyNone, PyStr(<<>>)}
     /\ sc_policy["license"] = DefaultPolicyLiteral.license)
    => /\ normalize_license(sc_meta[key.license]) = <<"u","n","k","n","o","w","n">>
       /\ Scored(2)
       /\ sc_result.rationale = "License {lic} is not permitted"

\* C6 witness: the empty-string license has been scored under the default policy
C6_Witness ==
    /\ sc_call = "license"
    /\ sc_meta[key.license] = PyStr(<<>>)
    /\ sc_policy = DefaultPolicyLiteral
    /\ Scored(2)

\* C7: the Compliance dimension gives bad keywords precedence: the score is 2 if any bad
\* keyword is a substring of the lowercased text (even when an ok keyword also matches),
\* otherwise 0 if any ok keyword is a substring, otherwise 1.
C7_CompliancePrecedence ==
    sc_call = "compliance_alignment" =>
        LET txt  == lower(sc_meta[key.card_text].v)
            kbad == sc_policy["compliance_alignment"].keywords_bad
            kok  == sc_policy["compliance_alignment"].keywords_ok
            bad  == \E i \in DOMAIN kbad : contains(txt, kbad[i])
            ok   == \E i \in DOMAIN kok : contains(txt, kok[i])
        IN  Scored(IF bad THEN 2 ELSE IF ok THEN 0 ELSE 1)

\* C7 witness: a text holding both an ok and a bad keyword has been scored 2
C7_Witness ==
    /\ sc_call = "compliance_alignment"
    /\ sc_policy = DefaultPolicyLiteral
    /\ contains(lower(sc_meta[key.card_text].v), <<"g","d","p","r">>)
    /\ contains(lower(sc_meta[key.card_text].v), <<"u","n","r","e","s","t","r","i","c","t","e","d">>)
    /\ Scored(2)

\* C8: the technical-feasibility thresholds are strict: the score is 1 when the parameter
\* count is absent, 2 when it is strictly greater than max_params_b, otherwise 1 when it
\* is strictly greater than warn_params_b, otherwise 0; 70 under the default thresholds
\* (max 70, warn 20) scores 1.  (params_b is in tenths.)
C8_FeasibilityStrict ==
    sc_call = "technical_feasibility" =>
        LET p == sc_meta[key.params_b]
            f == sc_policy["technical_feasibility"]
        IN  /\ Scored(IF p = PyNone THEN 1
                      ELSE IF p.v > 10 * f.max_params_b THEN 2
                      ELSE IF p.v > 10 * f.warn_params_b THEN 1 ELSE 0)
            /\ (p = PyNum(700) /\ f.max_params_b = 70 /\ f.warn_params_b = 20) => Scored(1)

\* C8 witness: params_b = 70 has been scored 1 under the default policy
C8_Witness ==
    /\ sc_call = "technical_feasibility"
    /\ sc_policy = DefaultPolicyLiteral
    /\ sc_meta[key.params_b] = PyNum(700)
    /\ Scored(1)

AllWeightsZero(policy_) ==
    \A d \in DimSet : d \in DOMAIN policy_["weights"] /\ policy_["weights"][d] = 0

\* C9: for every policy whose six weights are all 0 and any facts, score_model reports
\* percentage 0 and band "Green": the maximum is 0 and no division by zero occurs.
C9_ZeroWeightsGreen ==
    (sc_call = "score_model" /\ AllWeightsZero(sc_policy)) =>
        /\ sc_result.exc = "none"
        /\ sc_result.overall.max = 0
        /\ sc_result.overall.percent_tenths = 0
        /\ sc_result.overall.band = "Green"

\* C9 witness: score_model has returned under all-zero weights for facts that score 2
\* in some dimension
C9_Witness ==
    /\ sc_call = "score_model"
    /\ AllWeightsZero(sc_policy)
    /\ sc_result.exc = "none"
    /\ \E d \in DimSet : sc_result.details[d].score = 2

\* C10: the evaluator is total and bounded: for every facts and every policy, one with
\* empty rule sets included, each dimension evaluator returns a score in {0, 1, 2} and
\* never fails, and score_model returns a report with a result for all six dimensions.
C10_TotalAndBounded ==
    /\ sc_call \in DimSet =>
          /\ sc_result.exc = "none"
          /\ sc_result.score \in {0, 1, 2}
    /\ sc_call = "score_model" =>
          /\ sc_result.exc = "none"
          /\ DOMAIN sc_result.details = DimSet
          /\ \A d \in DimSet : sc_result.details[d].score \in {0, 1, 2}

\* C10 witness: score_model has returned a report under a policy whose rule sets are
\* all empty, for facts with absent license, downloads and parameter count
C10_Witness ==
    /\ sc_call = "score_model"
    /\ \A d \in DOMAIN EmptyRules : sc_policy[d] = EmptyRules[d]
    /\ sc_meta[key.license] = PyNone
    /\ sc_meta[key.downloads_30d] = PyNone
    /\ sc_meta[key.params_b] = PyNone
    /\ sc_result.exc = "none"
    /\ DOMAIN sc_result.details = DimSet

\* the weight score_model uses for dimension d: the policy's, 1 for a key it omits
WeightOf(d) == IF d \in DOMAIN sc_policy["weights"] THEN sc_policy["weights"][d] ELSE 1

\* the raw score the report holds for dimension d
RawOf(d) == sc_result.details[d].score

\* C11: aggregation and banding: for every facts and policy with non-negative integer
\* weights, the total is the sum over the six dimensions of raw score x weight, the
\* maximum is the sum of 2 x weight, each weighted value is raw score x weight, and the
\* band is Green exactly when total/maximum <= 25% (or the maximum is 0), Yellow exactly
\* when 25% < total/maximum <= 60%, Red exactly when total/maximum > 60%; hence
\* 0 <= total <= maximum.
C11_AggregationAndBanding ==
    sc_call = "score_model" =>
        LET o     == sc_result.overall
            total == RawOf("license") * WeightOf("license")
                     + RawOf("data_transparency") * WeightOf("data_transparency")
                     + RawOf("security_provenance") * WeightOf("security_provenance")
                     + RawOf("maturity_support") * WeightOf("maturity_support")
                     + RawOf("compliance_alignment") * WeightOf("compliance_alignment")
                     + RawOf("technical_feasibility") * WeightOf("technical_feasibility")
            max   == 2 * WeightOf("license") + 2 * WeightOf("data_transparency")
                     + 2 * WeightOf("security_provenance") + 2 * WeightOf("maturity_support")
                     + 2 * WeightOf("compliance_alignment") + 2 * WeightOf("technical_feasibility")
        IN  /\ sc_result.exc = "none"
            /\ \A d \in DimSet : WeightOf(d) >= 0
            /\ o.score = total
            /\ o.max = max
            /\ \A d \in DimSet :
                  /\ RawOf(d) = evaluate_dimension(d, sc_meta, sc_policy).score
                  /\ sc_result.details[d].weight = WeightOf(d)
                  /\ sc_result.details[d].weighted = RawOf(d) * WeightOf(d)
            /\ o.band \in {"Green", "Yellow", "Red"}
            /\ o.band = "Green"  <=> (max = 0 \/ 4 * total <= max)
            /\ o.band = "Yellow" <=> (max # 0 /\ 4 * total > max /\ 5 * total <= 3 * max)
            /\ o.band = "Red"    <=> (max # 0 /\ 5 * total > 3 * max)
            /\ 0 <= o.score /\ o.score <= o.max

\* C11 witness: a report whose total is exactly 60% of a non-zero maximum, banded Yellow
C11_Witness ==
    /\ sc_call = "score_model"
    /\ sc_result.exc = "none"
    /\ sc_result.overall.max > 0
    /\ 5 * sc_result.overall.score = 3 * sc_result.overall.max
    /\ sc_result.overall.band = "Yellow"

\* the identifier's substring before its first "/", lowercased
OwnerOf(repo_id) ==
    LET slashes == {i \in 1..Len(repo_id) : repo_id[i] = "/"}
        first   == IF slashes = {} THEN Len(repo_id) + 1
                   ELSE CHOOSE i \in slashes : \A j \in slashes : i <= j
    IN  lower(SubSeq(repo_id, 1, first - 1))

\* the facts' 30-day download count, an absent one counted as 0
DownloadsOf(meta) ==
    IF key.downloads_30d \in DOMAIN meta /\ meta[key.downloads_30d].t = "num"
    THEN meta[key.downloads_30d].v ELSE 0

\* C12: security-provenance rule: with owner the identifier's substring before the first
\* "/", lowercased, the dimension scores 0 if owner equals, case-insensitively, some entry
\* of the policy's trusted owners, whatever the download count; otherwise 1 if the 30-day
\* download count (absent counted as 0) is >= the policy's min_downloads_30d; otherwise 2.
\* In particular "meta-llama/Llama-3.1-8B" scores 0 under the default policy.
C12_SecurityProvenance ==
    sc_call = "security_provenance" =>
        LET rules   == sc_policy["security_provenance"]
            owner   == OwnerOf(sc_meta[key.repo_id].v)
            trusted == \E i \in DOMAIN rules["trusted_owners"] :
                          lower(rules["trusted_owners"][i]) = owner
        IN  /\ trusted => Scored(0)
            /\ (~trusted /\ DownloadsOf(sc_meta) >= rules["min_downloads_30d"]) => Scored(1)
            /\ (~trusted /\ DownloadsOf(sc_meta) < rules["min_downloads_30d"]) => Scored(2)
            /\ (/\ sc_meta[key.repo_id].v = <<"m","e","t","a","-","l","l","a","m","a","/",
                                              "L","l","a","m","a","-","3",".","1","-","8","B">>
                /\ sc_policy = DefaultPolicyLiteral) => Scored(0)

\* C12 witness: "meta-llama/Llama-3.1-8B" without a download count is scored 0 under the
\* default policy
C12_Witness ==
    /\ sc_call = "security_provenance"
    /\ OwnerOf(sc_meta[key.repo_id].v) = <<"m","e","t","a","-","l","l","a","m","a">>
    /\ sc_meta[key.downloads_30d] = PyNone
    /\ sc_policy = DefaultPolicyLiteral
    /\ Scored(0)

=============================================================================
